---- MODULE Spec2Model ----
(***************************************************************************)
(* Model of src/parsers/parser.js: the highlight synchronization engine.   *)
(* One process holds the module-level `cache`; parse() runs a batch of     *)
(* results through addBookAndHighlights one at a time.  Every call of      *)
(* siteleaf.request is modelled as two steps: the request is put in        *)
(* `inflight`, and a reply action completes it (success or failure).       *)
(* Each promise callback (.then) is one action.                            *)
(***************************************************************************)
EXTENDS Integers, Sequences, FiniteSets, TLC

\* ---------------------------------------------------------------- bounds
MaxRuns == 2      \* calls of parse() in the modelled history
MaxTuples == 2    \* results handed to parse() over the modelled history
MaxHl == 2        \* highlights per result

\* ---------------------------------------------------------------- inputs
SP == " "
Titles == {"T1", "T2"}
\* highlight texts, as sequences of characters: two of them differ only by
\* leading/trailing white space
Contents == { <<"a">>, <<SP, "a", SP>>, <<"b">> }

RECURSIVE SeqsUpTo(_, _)
SeqsUpTo(S, k) ==
  IF k = 0 THEN { <<>> }
  ELSE LET shorter == SeqsUpTo(S, k - 1)
       IN shorter \cup { Append(s, x) : s \in { t \in shorter : Len(t) = k - 1 }, x \in S }

\* highlight.date as the parsers deliver it: absent, 'Month D, YYYY', or unparseable
NoDate == ""
Dates == { NoDate, "March 3, 2020", "not a date" }
DateOf(content) ==
  CASE content = <<"a">> -> NoDate
    [] content = <<SP, "a", SP>> -> "March 3, 2020"
    [] OTHER -> "not a date"
\* a candidate highlight: content and date (each text comes with one date)
Highlight == { [content |-> c, date |-> DateOf(c)] : c \in Contents }
\* metadata.highlighted_on of a document that has no such field
Omitted == "omitted"
Tuples == [title : Titles, highlights : SeqsUpTo(Highlight, MaxHl)]

Range(s) == { s[i] : i \in 1..Len(s) }

\* ------------------------------------------------------------ the stores
\* a book document: display title, metadata.original_title, metadata.uuid
\* a highlight document: body, metadata.book_uuid, metadata.highlighted_on
EmptyStore == [books |-> <<>>, highlights |-> <<>>]
\* one book whose display title was corrected upstream to "T2"
RenamedStore ==
  [books |-> << [title |-> "T2", original_title |-> "T1", uuid |-> 1] >>,
   highlights |-> << [body |-> <<SP, "a", SP>>, book_uuid |-> 1,
                      highlighted_on |-> Omitted] >>]
\* two books with the same original title (a store this engine did not make)
DoubledStore ==
  [books |-> << [title |-> "T1", original_title |-> "T1", uuid |-> 1],
                [title |-> "T1", original_title |-> "T1", uuid |-> 2] >>,
   highlights |-> << [body |-> <<"b">>, book_uuid |-> 2, highlighted_on |-> Omitted] >>]
InitialStores == { EmptyStore, RenamedStore, DoubledStore }

NoBook == [title |-> "", original_title |-> "", uuid |-> 0]
NoTuple == [title |-> "", highlights |-> <<>>]
NoMark == [set |-> FALSE, tuple |-> NoTuple, run |-> 0, proc |-> 0]
NoCache == [present |-> FALSE, docs |-> <<>>]
NoHalt == [set |-> FALSE, tuple |-> NoTuple, run |-> 0, proc |-> 0, stored |-> 0, written |-> 0]

VARIABLES
  remote,       \* the remote store: [books, highlights], two ordered collections
  initial,      \* the remote store as it was before the first run (never changes)
  cache,        \* var cache = { highlights, books }: [present, docs] per collection
  run,          \* number of calls of parse() so far
  proc,         \* number of the process (each one loads the module afresh)
  pc,           \* where the current run is
  n,            \* results.length of the current run
  idx,          \* 1-based position of async.eachSeries in results
  cur,          \* results[idx], the tuple being processed
  book,         \* the book getBook resolved for cur
  filtered,     \* filteredHighlights of createHighlights
  completed,    \* number of cb() calls of the inner eachSeries
  inflight,     \* outstanding siteleaf requests
  promise,      \* state of the promises returned by parse, addBookAndHighlights, createHighlights
  failure,      \* which remote call failed in the current run ("none" if none)
  reads,        \* history: listing reads issued by this process, per collection
  procFailed,   \* history: some remote call failed in this process
  tupleCreates, \* history: creates issued while processing cur, per collection
  mark,         \* history: one tuple remembered as synchronized in an earlier run
  fed,          \* history: number of results handed to parse() so far
  runBase,      \* history: sizes of the remote collections when the current run started
  halted        \* history: the tuple whose highlight create failed most recently

vars == << remote, initial, cache, run, proc, pc, n, idx, cur, book, filtered, completed,
           inflight, promise, failure, reads, procFailed, tupleCreates, mark, fed,
           runBase, halted >>

\* ------------------------------------------------------- pure functions
RECURSIVE trimLeft(_)
trimLeft(s) ==
  IF s = <<>> THEN s ELSE IF Head(s) = SP THEN trimLeft(Tail(s)) ELSE s

RECURSIVE trimRight(_)
trimRight(s) ==
  IF s = <<>> THEN s
  ELSE IF s[Len(s)] = SP THEN trimRight(SubSeq(s, 1, Len(s) - 1)) ELSE s

\* String.prototype.trim
trim(s) == trimRight(trimLeft(s))

\* a filter that forgets the book scope
where_anyBook(existingHighlights, uuid) == existingHighlights

\* _.where(existingHighlights, { metadata: { book_uuid: uuid } })
where(existingHighlights, uuid) ==
  SelectSeq(existingHighlights, LAMBDA h : h.book_uuid = uuid)

\* a filter that compares the texts without trimming them
filterOutExistingHighlights_untrimmed(b, newHighlights, existingHighlights) ==
  SelectSeq(newHighlights,
            LAMBDA h : ~ \E i \in 1..Len(existingHighlights) :
                           /\ existingHighlights[i].book_uuid = b.uuid
                           /\ existingHighlights[i].body = h.content)

\* a filter that removes nothing
filterOutExistingHighlights_keepAll(b, newHighlights, existingHighlights) == newHighlights

\* filterOutExistingHighlights(book, newHighlights, existingHighlights)
filterOutExistingHighlights(b, newHighlights, existingHighlights) ==
  IF Len(existingHighlights) = 0 THEN newHighlights
  ELSE LET scoped == where(existingHighlights, b.uuid)
           highlightBodies == { trim(scoped[i].body) : i \in 1..Len(scoped) }
       IN IF Len(scoped) # 0
          THEN SelectSeq(newHighlights, LAMBDA h : trim(h.content) \notin highlightBodies)
          ELSE newHighlights

\* a lookup by display title
RECURSIVE findWhere_byTitle(_, _)
findWhere_byTitle(books, title) ==
  IF books = <<>> THEN [title |-> "", original_title |-> "", uuid |-> 0]
  ELSE IF Head(books).title = title THEN Head(books)
  ELSE findWhere_byTitle(Tail(books), title)

\* _.findWhere(books, { metadata: { original_title: title } }): the first match, or NoBook
RECURSIVE findWhere(_, _)
findWhere(books, title) ==
  IF books = <<>> THEN NoBook
  ELSE IF Head(books).original_title = title THEN Head(books)
  ELSE findWhere(Tail(books), title)

\* uuid.v4(): a value no book of the store carries
uuid_v4 ==
  LET used == { remote.books[i].uuid : i \in 1..Len(remote.books) }
  IN IF used = {} THEN 1 ELSE 1 + CHOOSE u \in used : \A v \in used : v <= u

\* a createBook that forgets to set original_title
createBookParams_noOriginal(title, uuid) ==
  [title |-> title, original_title |-> "", uuid |-> uuid]

\* the body createBook posts: params.metadata merged with original_title
createBookParams(title, uuid) ==
  [title |-> title, original_title |-> title, uuid |-> uuid]

\* moment(date, [moment.ISO_8601, 'MMMM D, YYYY']).isValid()
isValid(date) == date \in { "March 3, 2020", "2020-03-03T00:00:00Z" }

\* highlightMoment.toISOString()
toISOString(date) == "2020-03-03T00:00:00.000Z"

\* a createHighlight that uses the uuid generated for the candidate book
createHighlightParams_candidate(highlight, b) ==
  [body |-> highlight.content,
   book_uuid |-> uuid_v4,
   highlighted_on |-> IF highlight.date # NoDate /\ isValid(highlight.date)
                      THEN toISOString(highlight.date)
                      ELSE Omitted]

\* a createHighlight that does not look at isValid()
createHighlightParams_alwaysDate(highlight, b) ==
  [body |-> highlight.content,
   book_uuid |-> b.uuid,
   highlighted_on |-> IF highlight.date # NoDate
                      THEN toISOString(highlight.date)
                      ELSE Omitted]

\* the body createHighlight posts
createHighlightParams(highlight, b) ==
  [body |-> highlight.content,
   book_uuid |-> b.uuid,
   highlighted_on |-> IF highlight.date # NoDate /\ isValid(highlight.date)
                      THEN toISOString(highlight.date)
                      ELSE Omitted]

\* an addBookAndHighlights without the early return
skip_never(highlights) == FALSE

\* if (!highlights.length) return Promise.resolve();
skip(highlights) == Len(highlights) = 0

\* a cache that is never consulted
cacheHit_never(c) == FALSE

\* if (cache.books) / if (cache.highlights): an empty array is truthy
cacheHit(c) == cache[c].present

\* a createBook that does not record the new book in the cache
pushBook_forgotten(docs, b) == docs

\* a createBook that records both the posted body and the reply
pushBook_twice(docs, b) == Append(Append(docs, b), b)

\* cache.books.push(book)
pushBook(docs, b) == Append(docs, b)

\* a createHighlight that does not record the new highlight in the cache
pushHighlight_forgotten(docs, h) == docs

\* cache.highlights.push(highlight)
pushHighlight(docs, h) == Append(docs, h)

\* async.each: every iteratee is invoked at once
eachSeriesFirst_parallel(len) == 1..len

\* a series that starts from the last item
eachSeriesFirst_last(len) == IF len > 0 THEN {len} ELSE {}

\* async.eachSeries: the items whose iteratee is invoked when the series starts
eachSeriesFirst(len) == IF len > 0 THEN {1} ELSE {}

\* an iteratee whose cb() never starts the next item
eachSeriesNext_stop(i, len) == {}

\* async.eachSeries: the items whose iteratee is invoked when item i calls cb()
eachSeriesNext(i, len) == IF i < len THEN {i + 1} ELSE {}

\* an iteratee that calls cb() on rejection too
parseIteratee_swallow(ok) == [pc |-> "iter", idx |-> idx + 1]

\* parse's iteratee: addBookAndHighlights(...).then(function () { return cb(); })
\* has no rejection handler, so a rejected promise never calls cb
parseIteratee(ok) ==
  IF ok THEN [pc |-> "iter", idx |-> idx + 1] ELSE [pc |-> "stalled", idx |-> idx]

\* the promises after the remote call `call` failed
settle(call) ==
  CASE call \in {"listBooks", "createBook"} ->
         [parse |-> "pending", add |-> "rejected", createHighlights |-> "none"]
    [] call = "listHighlights" ->
         [parse |-> "pending", add |-> "rejected", createHighlights |-> "rejected"]
    [] call = "createHighlight" ->
         [parse |-> "pending", add |-> "pending", createHighlights |-> "pending"]

listRequest(c) == [op |-> "list", coll |-> c, item |-> 0, body |-> NoBook]
createBookRequest(params) == [op |-> "create", coll |-> "books", item |-> 0, body |-> params]
createHighlightRequest(i, params) ==
  [op |-> "create", coll |-> "highlights", item |-> i, body |-> params]

Idle == pc \in {"idle", "done", "stalled"}

\* ---------------------------------------------------------------- Init
Init ==
  /\ remote \in InitialStores
  /\ initial = remote
  /\ cache = [books |-> NoCache, highlights |-> NoCache]
  /\ run = 0
  /\ proc = 1
  /\ pc = "idle"
  /\ n = 0
  /\ idx = 0
  /\ cur = NoTuple
  /\ book = NoBook
  /\ filtered = <<>>
  /\ completed = 0
  /\ inflight = {}
  /\ promise = [parse |-> "none", add |-> "none", createHighlights |-> "none"]
  /\ failure = "none"
  /\ reads = [books |-> 0, highlights |-> 0]
  /\ procFailed = FALSE
  /\ tupleCreates = [books |-> 0, highlights |-> 0]
  /\ mark = NoMark
  /\ fed = 0
  /\ runBase = [books |-> Len(remote.books), highlights |-> Len(remote.highlights)]
  /\ halted = NoHalt

\* ------------------------------------------------------------- actions
\* a new process loads the module: var cache = { highlights: null, books: null }
NewProcess ==
  /\ pc \in {"done", "stalled"}
  /\ run < MaxRuns
  /\ cache' = [books |-> NoCache, highlights |-> NoCache]
  /\ pc' = "idle"
  /\ n' = 0
  /\ idx' = 0
  /\ cur' = NoTuple
  /\ book' = NoBook
  /\ filtered' = <<>>
  /\ completed' = 0
  /\ inflight' = {}
  /\ promise' = [parse |-> "none", add |-> "none", createHighlights |-> "none"]
  /\ failure' = "none"
  /\ reads' = [books |-> 0, highlights |-> 0]
  /\ procFailed' = FALSE
  /\ tupleCreates' = [books |-> 0, highlights |-> 0]
  /\ proc' = proc + 1
  /\ UNCHANGED << remote, initial, run, mark, fed, runBase, halted >>

\* parse(mail): the parsers produce len results and the series starts
Parse(len) ==
  /\ Idle
  /\ run < MaxRuns
  /\ fed + len <= MaxTuples
  /\ fed' = fed + len
  /\ run' = run + 1
  /\ n' = len
  /\ idx' = 1
  /\ pc' = "iter"
  /\ cur' = NoTuple
  /\ book' = NoBook
  /\ filtered' = <<>>
  /\ completed' = 0
  /\ inflight' = {}
  /\ failure' = "none"
  /\ promise' = [parse |-> "pending", add |-> "none", createHighlights |-> "none"]
  /\ tupleCreates' = [books |-> 0, highlights |-> 0]
  /\ runBase' = [books |-> Len(remote.books), highlights |-> Len(remote.highlights)]
  /\ UNCHANGED << remote, initial, proc, cache, reads, procFailed, mark, halted >>

\* the final callback of parse's eachSeries: resolve()
ParseDone ==
  /\ pc = "iter"
  /\ idx > n
  /\ pc' = "done"
  /\ promise' = [promise EXCEPT !.parse = "resolved"]
  /\ UNCHANGED << remote, initial, proc, cache, run, n, idx, cur, book, filtered, completed,
                  inflight, failure, reads, procFailed, tupleCreates, mark, fed, runBase, halted >>

\* getHighlights(), called first thing by createHighlights
getHighlights ==
  IF cacheHit("highlights")
  THEN /\ pc' = "gotHighlights"
       /\ inflight' = inflight
       /\ reads' = reads
  ELSE /\ pc' = "getHighlights"
       /\ inflight' = inflight \cup { listRequest("highlights") }
       /\ reads' = [reads EXCEPT !.highlights = @ + 1]

\* the iteratee of parse's eachSeries: addBookAndHighlights(result.book,
\* result.highlights), down to getBook -> getBooks
AddBookAndHighlights(result) ==
  /\ pc = "iter"
  /\ idx <= n
  /\ cur' = result
  /\ tupleCreates' = [books |-> 0, highlights |-> 0]
  /\ IF skip(result.highlights)
     THEN /\ pc' = "settled"
          /\ promise' = [promise EXCEPT !.add = "resolved"]
          /\ UNCHANGED << inflight, reads >>
     ELSE /\ promise' = [promise EXCEPT !.add = "pending"]
          /\ IF cacheHit("books")
             THEN /\ pc' = "gotBooks"
                  /\ UNCHANGED << inflight, reads >>
             ELSE /\ pc' = "getBooks"
                  /\ inflight' = inflight \cup { listRequest("books") }
                  /\ reads' = [reads EXCEPT !.books = @ + 1]
  /\ UNCHANGED << remote, initial, proc, cache, run, n, idx, book, filtered, completed,
                  failure, procFailed, mark, fed, runBase, halted >>

\* the reply to the books listing: getBooks' .then stores it in the cache
ListBooksReply(ok) ==
  /\ pc = "getBooks"
  /\ listRequest("books") \in inflight
  /\ inflight' = inflight \ { listRequest("books") }
  /\ IF ok
     THEN /\ cache' = [cache EXCEPT !.books = [present |-> TRUE, docs |-> remote.books]]
          /\ pc' = "gotBooks"
          /\ UNCHANGED << idx, promise, failure, procFailed >>
     ELSE /\ pc' = parseIteratee(FALSE).pc
          /\ idx' = parseIteratee(FALSE).idx
          /\ promise' = settle("listBooks")
          /\ failure' = "listBooks"
          /\ procFailed' = TRUE
          /\ UNCHANGED cache
  /\ UNCHANGED << remote, initial, proc, run, n, cur, book, filtered, completed,
                  reads, tupleCreates, mark, fed, runBase, halted >>

\* getBook's .then: find the book by original_title or create it
GetBook ==
  /\ pc = "gotBooks"
  /\ LET existingBook == findWhere(cache.books.docs, cur.title)
     IN IF existingBook # NoBook
        THEN /\ book' = existingBook
             /\ promise' = [promise EXCEPT !.createHighlights = "pending"]
             /\ getHighlights
             /\ UNCHANGED tupleCreates
        ELSE /\ pc' = "createBook"
             /\ inflight' = inflight \cup
                  { createBookRequest(createBookParams(cur.title, uuid_v4)) }
             /\ tupleCreates' = [tupleCreates EXCEPT !.books = @ + 1]
             /\ UNCHANGED << book, promise, reads >>
  /\ UNCHANGED << remote, initial, proc, cache, run, n, idx, cur, filtered, completed,
                  failure, procFailed, mark, fed, runBase, halted >>

\* the reply to createBook's POST
CreateBookReply(ok) ==
  /\ pc = "createBook"
  /\ \E r \in inflight :
       /\ r.op = "create"
       /\ r.coll = "books"
       /\ IF ok
          THEN /\ remote' = [remote EXCEPT !.books = Append(@, r.body)]
               /\ cache' = [cache EXCEPT !.books.docs = pushBook(@, r.body)]
               /\ book' = r.body
               /\ promise' = [promise EXCEPT !.createHighlights = "pending"]
               /\ LET rest == inflight \ {r}
                  IN IF cacheHit("highlights")
                     THEN /\ pc' = "gotHighlights"
                          /\ inflight' = rest
                          /\ reads' = reads
                     ELSE /\ pc' = "getHighlights"
                          /\ inflight' = rest \cup { listRequest("highlights") }
                          /\ reads' = [reads EXCEPT !.highlights = @ + 1]
               /\ UNCHANGED << idx, failure, procFailed >>
          ELSE /\ inflight' = inflight \ {r}
               /\ pc' = parseIteratee(FALSE).pc
               /\ idx' = parseIteratee(FALSE).idx
               /\ promise' = settle("createBook")
               /\ failure' = "createBook"
               /\ procFailed' = TRUE
               /\ UNCHANGED << remote, cache, book, reads >>
  /\ UNCHANGED << initial, proc, run, n, cur, filtered, completed, tupleCreates, mark, fed, runBase, halted >>

\* the reply to the highlights listing: getHighlights' .then stores it in the cache
ListHighlightsReply(ok) ==
  /\ pc = "getHighlights"
  /\ listRequest("highlights") \in inflight
  /\ inflight' = inflight \ { listRequest("highlights") }
  /\ IF ok
     THEN /\ cache' = [cache EXCEPT !.highlights =
                         [present |-> TRUE, docs |-> remote.highlights]]
          /\ pc' = "gotHighlights"
          /\ UNCHANGED << idx, promise, failure, procFailed >>
     ELSE /\ pc' = parseIteratee(FALSE).pc
          /\ idx' = parseIteratee(FALSE).idx
          /\ promise' = settle("listHighlights")
          /\ failure' = "listHighlights"
          /\ procFailed' = TRUE
          /\ UNCHANGED cache
  /\ UNCHANGED << remote, initial, proc, run, n, cur, book, filtered, completed,
                  reads, tupleCreates, mark, fed, runBase, halted >>

\* createHighlights' .then chain: filter, then start the series of creates
CreateHighlights ==
  /\ pc = "gotHighlights"
  /\ LET filteredHighlights ==
           filterOutExistingHighlights(book, cur.highlights, cache.highlights.docs)
         first == eachSeriesFirst(Len(filteredHighlights))
     IN /\ filtered' = filteredHighlights
        /\ IF Len(filteredHighlights) = 0
           THEN /\ pc' = "settled"
                /\ promise' = [promise EXCEPT !.add = "resolved",
                                              !.createHighlights = "resolved"]
                /\ UNCHANGED << inflight, tupleCreates >>
           ELSE /\ pc' = "writing"
                /\ inflight' = inflight \cup
                     { createHighlightRequest(i,
                         createHighlightParams(filteredHighlights[i], book)) : i \in first }
                /\ tupleCreates' =
                     [tupleCreates EXCEPT !.highlights = @ + Cardinality(first)]
                /\ UNCHANGED promise
  /\ completed' = 0
  /\ UNCHANGED << remote, initial, proc, cache, run, n, idx, cur, book, failure, reads,
                  procFailed, mark, fed, runBase, halted >>

\* the reply to one createHighlight POST; on success the record is pushed to
\* the cache and cb() lets the series go on; on failure cb is never called
CreateHighlightReply(ok) ==
  /\ pc = "writing"
  /\ \E r \in inflight :
       /\ r.op = "create"
       /\ r.coll = "highlights"
       /\ IF ok
          THEN LET next == eachSeriesNext(r.item, Len(filtered))
               IN /\ remote' = [remote EXCEPT !.highlights = Append(@, r.body)]
                  /\ cache' = [cache EXCEPT !.highlights.docs = pushHighlight(@, r.body)]
                  /\ completed' = completed + 1
                  /\ inflight' = (inflight \ {r}) \cup
                       { createHighlightRequest(i, createHighlightParams(filtered[i], book))
                           : i \in next }
                  /\ tupleCreates' =
                       [tupleCreates EXCEPT !.highlights = @ + Cardinality(next)]
                  /\ IF completed + 1 = Len(filtered)
                     THEN /\ pc' = "settled"
                          /\ promise' = [promise EXCEPT !.add = "resolved",
                                                        !.createHighlights = "resolved"]
                     ELSE UNCHANGED << pc, promise >>
                  /\ UNCHANGED << failure, procFailed, halted >>
          ELSE /\ inflight' = inflight \ {r}
               /\ pc' = "stalled"
               /\ promise' = settle("createHighlight")
               /\ failure' = "createHighlight"
               /\ procFailed' = TRUE
               /\ halted' = [set |-> TRUE, tuple |-> cur, run |-> run, proc |-> proc,
                              stored |-> Len(remote.highlights), written |-> completed]
               /\ UNCHANGED << remote, cache, completed, tupleCreates >>
  /\ UNCHANGED << initial, proc, run, n, idx, cur, book, filtered, reads, mark, fed, runBase >>

\* addBookAndHighlights(...) resolved: parse's .then calls cb() and the series
\* moves to the next result; the tuple may be remembered (history only)
IterateeCb(remember) ==
  /\ pc = "settled"
  /\ pc' = parseIteratee(TRUE).pc
  /\ idx' = parseIteratee(TRUE).idx
  /\ mark' = IF remember /\ ~mark.set /\ ~skip(cur.highlights)
             THEN [set |-> TRUE, tuple |-> cur, run |-> run, proc |-> proc]
             ELSE mark
  /\ cur' = NoTuple
  /\ book' = NoBook
  /\ filtered' = <<>>
  /\ completed' = 0
  /\ promise' = [promise EXCEPT !.add = "none", !.createHighlights = "none"]
  /\ tupleCreates' = [books |-> 0, highlights |-> 0]
  /\ UNCHANGED << remote, initial, proc, cache, run, n, inflight, failure, reads, procFailed, fed, runBase, halted >>

Next ==
  \/ NewProcess
  \/ \E len \in 0..MaxTuples : Parse(len)
  \/ ParseDone
  \/ \E result \in Tuples : AddBookAndHighlights(result)
  \/ \E ok \in BOOLEAN : ListBooksReply(ok)
  \/ GetBook
  \/ \E ok \in BOOLEAN : CreateBookReply(ok)
  \/ \E ok \in BOOLEAN : ListHighlightsReply(ok)
  \/ CreateHighlights
  \/ \E ok \in BOOLEAN : CreateHighlightReply(ok)
  \/ \E remember \in BOOLEAN : IterateeCb(remember)

Spec == Init /\ [][Next]_vars

\* the steps of a run: callbacks the event loop has ready and replies the
\* remote store owes; node runs every ready callback and every request is answered
RunStep ==
  \/ ParseDone
  \/ \E result \in Tuples : AddBookAndHighlights(result)
  \/ \E ok \in BOOLEAN : ListBooksReply(ok)
  \/ GetBook
  \/ \E ok \in BOOLEAN : CreateBookReply(ok)
  \/ \E ok \in BOOLEAN : ListHighlightsReply(ok)
  \/ CreateHighlights
  \/ \E ok \in BOOLEAN : CreateHighlightReply(ok)
  \/ \E remember \in BOOLEAN : IterateeCb(remember)

FairSpec == Spec /\ WF_vars(RunStep)

\* ------------------------------------------------------------ properties
SameBookSameText(h1, h2) ==
  h1.book_uuid = h2.book_uuid /\ trim(h1.body) = trim(h2.body)

UniqueHighlights(hs) ==
  \A i, j \in 1..Len(hs) : i # j => ~SameBookSameText(hs[i], hs[j])

UniqueBooks(bs) ==
  \A i, j \in 1..Len(bs) : i # j => bs[i].original_title # bs[j].original_title

\* C1 - Idempotence across runs: a tuple with a non-empty highlight list that
\* an earlier run synchronized with every remote call succeeding causes, when
\* a later run synchronizes it again, no create on the books collection and no
\* create on the highlights collection.
C1_Idempotence ==
  (mark.set /\ run > mark.run /\ cur = mark.tuple)
    => (tupleCreates.books = 0 /\ tupleCreates.highlights = 0)

\* the same two-highlight tuple went through a second run, in a new process
\* that read both listings again
C1_Witness ==
  /\ mark.set
  /\ run > mark.run
  /\ proc > mark.proc
  /\ cur = mark.tuple
  /\ Len(cur.highlights) = 2
  /\ reads = [books |-> 1, highlights |-> 1]
  /\ pc = "settled"

\* C2 - Highlight uniqueness: from a store with no two highlights of one book
\* with equal trimmed body, the highlights collection never holds two
\* highlights with the same book_uuid and equal trimmed body.
C2_HighlightUniqueness ==
  UniqueHighlights(initial.highlights) => UniqueHighlights(remote.highlights)

\* C3 - Book uniqueness: from a store with at most one book per
\* original_title the books collection keeps at most one book per
\* original_title, and a book create is only ever outstanding for a title
\* that no cached book has as its original_title.
C3_BookUniqueness ==
  /\ UniqueBooks(initial.books) => UniqueBooks(remote.books)
  /\ \A r \in inflight :
       (r.op = "create" /\ r.coll = "books") =>
         /\ r.body.title = cur.title
         /\ \A i \in 1..Len(cache.books.docs) :
              cache.books.docs[i].original_title # r.body.title

\* two tuples with the same title went through one run and the store holds one book
C3_Witness ==
  /\ initial = EmptyStore
  /\ idx = 2
  /\ pc = "settled"
  /\ ~skip(cur.highlights)
  /\ Len(remote.books) = 1
  /\ Len(remote.highlights) >= 2

\* C4 - Sequential abort: once a remote call of a run has failed, the run has
\* no request outstanding and stays on the tuple that failed, and no later
\* step of that run changes the remote store, issues a request or moves on to
\* the next tuple.
C4_SequentialAbort ==
  /\ [](failure # "none" => (inflight = {} /\ pc = "stalled"))
  /\ [][ (failure # "none" /\ failure' # "none")
           => (remote' = remote /\ inflight' = inflight /\ idx' = idx /\ reads' = reads) ]_vars

\* the first of two surviving candidates of T1 failed, and T2 is pending
C4_Witness ==
  /\ failure = "createHighlight"
  /\ idx = 1
  /\ n = 2
  /\ Len(filtered) = 2
  /\ completed = 0
  /\ Len(remote.highlights) = Len(initial.highlights)

\* C5 - Failure propagation: when a highlight create fails, the promises of
\* createHighlights and addBookAndHighlights are rejected and the promise of
\* parse ends with an error instead of staying pending.
C5_FailurePropagates ==
  failure = "createHighlight" =>
    /\ promise.createHighlights = "rejected"
    /\ promise.add = "rejected"
    /\ promise.parse = "rejected"

\* C6 - Scoped dedup: the filter keeps every candidate whose trimmed content
\* is not the trimmed body of a cached highlight of the resolved book (same
\* book_uuid), whatever other books hold, and every kept candidate has been
\* created for the resolved book when the tuple ends.
C6_ScopedDedup ==
  /\ [][ pc = "gotHighlights" =>
           \A i \in 1..Len(cur.highlights) :
             (~ \E j \in 1..Len(cache.highlights.docs) :
                  /\ cache.highlights.docs[j].book_uuid = book.uuid
                  /\ trim(cache.highlights.docs[j].body) = trim(cur.highlights[i].content))
               => cur.highlights[i] \in Range(filtered') ]_vars
  /\ [](pc = "settled" =>
          \A h \in Range(filtered) :
            \E j \in 1..Len(remote.highlights) :
              /\ remote.highlights[j].body = h.content
              /\ remote.highlights[j].book_uuid = book.uuid)

\* a candidate whose trimmed text another book already holds was created
C6_Witness ==
  /\ pc = "settled"
  /\ \E h \in Range(filtered) :
       \E j \in 1..Len(remote.highlights) :
         /\ remote.highlights[j].book_uuid # book.uuid
         /\ trim(remote.highlights[j].body) = trim(h.content)

\* C7 - Skip-empty rule: a tuple with an empty highlight list issues no remote
\* call and leaves the cache and the remote store unchanged, and the series
\* then moves on to the next tuple.
C7_SkipEmpty ==
  /\ [][ (pc = "iter" /\ idx <= n /\ run' = run /\ Len(cur'.highlights) = 0)
           => /\ remote' = remote
              /\ cache' = cache
              /\ inflight' = inflight
              /\ reads' = reads
              /\ tupleCreates' = [books |-> 0, highlights |-> 0]
              /\ pc' = "settled" ]_vars
  /\ [][ (pc = "settled" /\ Len(cur.highlights) = 0)
           => /\ remote' = remote
              /\ cache' = cache
              /\ inflight' = inflight
              /\ reads' = reads
              /\ pc' = "iter"
              /\ idx' = idx + 1 ]_vars
  /\ [](inflight # {} => Len(cur.highlights) # 0)

\* an empty tuple for a book that exists remotely was skipped, with a tuple to follow
C7_Witness ==
  /\ pc = "settled"
  /\ cur.title \in Titles
  /\ cur.highlights = <<>>
  /\ idx < n
  /\ \E i \in 1..Len(remote.books) : remote.books[i].original_title = cur.title

\* the positions of the cached books whose original_title is the candidate's title
Matches == { i \in 1..Len(cache.books.docs) :
               cache.books.docs[i].original_title = cur.title }

\* C8 - Book resolution by original title only: when some cached book has the
\* candidate's title as original_title, getBook resolves to the first of them
\* unchanged and issues nothing on the books collection; otherwise (also when
\* only a display title matches) it issues a create for a new book.
C8_ResolveByOriginalTitle ==
  [][ pc = "gotBooks" =>
        IF Matches # {}
        THEN /\ book' = cache.books.docs[CHOOSE i \in Matches : \A k \in Matches : i <= k]
             /\ remote' = remote
             /\ cache' = cache
             /\ ~ \E r \in inflight' : r.coll = "books"
        ELSE /\ pc' = "createBook"
             /\ \E r \in inflight' :
                  /\ r.op = "create"
                  /\ r.coll = "books"
                  /\ r.body.title = cur.title
                  /\ r.body.original_title = cur.title ]_vars

\* the resolved book keeps a display title that differs from the candidate's
C8_Witness ==
  /\ pc \in {"getHighlights", "gotHighlights"}
  /\ book.original_title = cur.title
  /\ book.title # cur.title

\* C9 - Single read per collection: while no remote call of the process has
\* failed, each listing has been read at most once, and exactly once as soon
\* as the collection has been accessed.
C9_SingleRead ==
  ~procFailed =>
    /\ reads.books <= 1
    /\ reads.highlights <= 1
    /\ (pc \in {"getBooks", "gotBooks", "createBook", "getHighlights",
                "gotHighlights", "writing"}) => reads.books = 1
    /\ (pc \in {"getHighlights", "gotHighlights", "writing"}) => reads.highlights = 1

\* the first listings were empty, and a second run of the same process is
\* served from the cache
C9_Witness ==
  /\ initial = EmptyStore
  /\ ~procFailed
  /\ run = 2
  /\ proc = 1
  /\ pc = "gotHighlights"
  /\ reads = [books |-> 1, highlights |-> 1]

\* C10 - One request in flight: at most one remote call is outstanding at any
\* moment, and a request is issued only when no other one is outstanding.
C10_OneInFlight ==
  /\ [](Cardinality(inflight) <= 1)
  /\ [][ (inflight' \ inflight # {}) => (inflight' \cap inflight = {}) ]_vars

\* the second highlight of a tuple is being created, alone
C10_Witness ==
  \E r \in inflight : r.coll = "highlights" /\ r.op = "create" /\ r.item = 2

\* a collection only grows at its end, one record at a time
Appended(c) ==
  /\ Len(remote'[c]) = Len(remote[c]) + 1
  /\ SubSeq(remote'[c], 1, Len(remote[c])) = remote[c]

\* the record a step appended to a collection
Last(c) == remote'[c][Len(remote'[c])]

\* C11 - Write ordering: the highlights written for a tuple are the last
\* records of the highlights collection, in the order of the filtered list;
\* every write appends one record of the current tuple at the end of its
\* collection, a book before any highlight of its tuple; and the series moves
\* to the next tuple only when the current one has settled.
C11_WriteOrdering ==
  /\ [](pc \in {"writing", "settled"} =>
          /\ completed <= Len(filtered)
          /\ completed <= Len(remote.highlights)
          /\ \A k \in 1..completed :
               remote.highlights[Len(remote.highlights) - completed + k]
                 = createHighlightParams(filtered[k], book))
  /\ [][ remote' # remote =>
           \/ /\ Appended("books")
              /\ remote'.highlights = remote.highlights
              /\ Last("books").original_title = cur.title
              /\ tupleCreates.highlights = 0
           \/ /\ Appended("highlights")
              /\ remote'.books = remote.books
              /\ Last("highlights").book_uuid = book.uuid
              /\ book.original_title = cur.title ]_vars
  /\ [][ (run' = run /\ proc' = proc /\ idx' # idx)
           => (pc = "settled" /\ inflight = {} /\ idx' = idx + 1) ]_vars

\* the second tuple of a run created its book and then two different highlights
C11_Witness ==
  /\ pc = "settled"
  /\ idx = 2
  /\ tupleCreates.books = 1
  /\ Len(filtered) = 2
  /\ filtered[1] # filtered[2]
  /\ Len(remote.highlights) >= runBase.highlights + 3

\* the positions of the records created since the current run started
RunBooks == (runBase.books + 1)..Len(remote.books)
RunHighlights == (runBase.highlights + 1)..Len(remote.highlights)

\* C12 - Same-run visibility: a tuple whose title is the original_title of a
\* book created earlier in the run resolves to a stored book with that
\* original_title without a create and without a read, and no candidate kept by
\* the filter has the trimmed text of a highlight written earlier in the run
\* for the resolved book; the filter step reads nothing.
C12_SameRunVisibility ==
  /\ [][ (pc = "gotBooks" /\ \E i \in RunBooks : remote.books[i].original_title = cur.title)
           => /\ pc' # "createBook"
              /\ remote' = remote
              /\ \E i \in 1..Len(remote.books) : remote.books[i] = book'
              /\ book'.original_title = cur.title
              /\ reads'.books = reads.books ]_vars
  /\ [][ pc = "gotHighlights"
           => /\ reads' = reads
              /\ \A h \in Range(filtered') :
                   ~ \E j \in RunHighlights :
                       /\ remote.highlights[j].book_uuid = book.uuid
                       /\ trim(remote.highlights[j].body) = trim(h.content) ]_vars

\* the second tuple found the book the first one created, and all its
\* candidates were filtered out
C12_Witness ==
  /\ pc = "settled"
  /\ idx = 2
  /\ Len(cur.highlights) >= 1
  /\ filtered = <<>>
  /\ tupleCreates = [books |-> 0, highlights |-> 0]
  /\ \E i \in RunBooks : remote.books[i] = book
  /\ reads = [books |-> 1, highlights |-> 1]

\* a cached highlight of the resolved book with the candidate's trimmed text
Duplicate(h) ==
  \E j \in 1..Len(cache.highlights.docs) :
    /\ cache.highlights.docs[j].book_uuid = book.uuid
    /\ trim(cache.highlights.docs[j].body) = trim(h.content)

\* C13 - Filter result: the filtered list is exactly the candidates that have
\* no cached highlight of the resolved book with the same trimmed text, in
\* their order; with an empty cached listing, or none of that book, it is the
\* candidate list; an empty result settles the tuple without any create.
C13_FilterResult ==
  [][ pc = "gotHighlights" =>
        /\ filtered' = SelectSeq(cur.highlights, LAMBDA h : ~Duplicate(h))
        /\ (\A j \in 1..Len(cache.highlights.docs) :
              cache.highlights.docs[j].book_uuid # book.uuid) => filtered' = cur.highlights
        /\ filtered' = <<>> =>
             /\ pc' = "settled"
             /\ inflight' = inflight
             /\ remote' = remote
             /\ tupleCreates'.highlights = 0 ]_vars

\* of two candidates the first was removed and the second kept
C13_Witness ==
  /\ pc = "writing"
  /\ Len(cur.highlights) = 2
  /\ filtered = << cur.highlights[2] >>
  /\ cur.highlights[1] # cur.highlights[2]

\* C14 - Resolved-uuid scoping: the resolved book is a stored book, every
\* highlight create carries its uuid (when the book already existed, not the
\* uuid generated for the candidate), and every highlight the engine stored
\* carries the uuid of a stored book.
C14_ResolvedUuid ==
  /\ (pc \in {"getHighlights", "gotHighlights", "writing"}) =>
       \E i \in 1..Len(remote.books) : remote.books[i] = book
  /\ \A r \in inflight :
       (r.op = "create" /\ r.coll = "highlights") =>
         /\ r.body.book_uuid = book.uuid
         /\ tupleCreates.books = 0 => r.body.book_uuid # uuid_v4
  /\ \A j \in (Len(initial.highlights) + 1)..Len(remote.highlights) :
       \E i \in 1..Len(remote.books) : remote.books[i].uuid = remote.highlights[j].book_uuid

\* a highlight is being created for a book that was in the store from the start
C14_Witness ==
  /\ pc = "writing"
  /\ tupleCreates.books = 0
  /\ book \in Range(initial.books)
  /\ \E r \in inflight : r.coll = "highlights" /\ r.body.book_uuid = book.uuid

\* C15 - Recovery after partial failure: the remote collections only grow, so
\* what a halted run wrote stays; and when a later run processes the tuple
\* whose highlight create failed, it creates no book and every highlight it
\* creates differs, in trimmed text or in book, from every highlight stored
\* when the run was halted.
C15_Recovery ==
  /\ [][ /\ Len(remote'.books) >= Len(remote.books)
         /\ SubSeq(remote'.books, 1, Len(remote.books)) = remote.books
         /\ Len(remote'.highlights) >= Len(remote.highlights)
         /\ SubSeq(remote'.highlights, 1, Len(remote.highlights)) = remote.highlights ]_vars
  /\ []((halted.set /\ run > halted.run /\ cur = halted.tuple) =>
          /\ tupleCreates.books = 0
          /\ \A r \in inflight :
               (r.op = "create" /\ r.coll = "highlights") =>
                 \A j \in 1..halted.stored :
                   ~ ( /\ remote.highlights[j].book_uuid = r.body.book_uuid
                       /\ trim(remote.highlights[j].body) = trim(r.body.body) ))

\* a run was halted after one of two highlights; a new process resubmitted the
\* tuple and created only the other one
C15_Witness ==
  /\ halted.set
  /\ halted.written = 1
  /\ run > halted.run
  /\ proc > halted.proc
  /\ cur = halted.tuple
  /\ pc = "settled"
  /\ tupleCreates = [books |-> 0, highlights |-> 1]

\* C16 - Unparseable date is not an error: every highlight create carries the
\* candidate's content and the resolved book's uuid, and carries
\* highlighted_on exactly when the candidate has a date that parses; after a
\* create succeeded the next candidate's create is issued, whatever the dates.
C16_DateOptional ==
  /\ [](\A r \in inflight :
          (r.op = "create" /\ r.coll = "highlights" /\ pc = "writing") =>
            /\ r.item \in 1..Len(filtered)
            /\ r.body.body = filtered[r.item].content
            /\ r.body.book_uuid = book.uuid
            /\ (r.body.highlighted_on # Omitted)
                 <=> (filtered[r.item].date \in {"March 3, 2020", "2020-03-03T00:00:00Z"}))
  /\ [][ (pc = "writing" /\ remote'.highlights # remote.highlights
            /\ completed + 1 < Len(filtered))
           => /\ pc' = "writing"
              /\ \E r \in inflight' : r.coll = "highlights" /\ r.item = completed + 2 ]_vars

\* a highlight with an unparseable date was stored without highlighted_on and
\* the next one, whose date parses, is being created with it
C16_Witness ==
  /\ pc = "writing"
  /\ completed = 1
  /\ filtered[1].date = "not a date"
  /\ remote.highlights[Len(remote.highlights)].body = filtered[1].content
  /\ remote.highlights[Len(remote.highlights)].highlighted_on = Omitted
  /\ \E r \in inflight : r.item = 2 /\ r.body.highlighted_on # Omitted

\* a stored highlight carries the uuid of the book at position i
HasHighlight(i) ==
  \E j \in 1..Len(remote.highlights) : remote.highlights[j].book_uuid = remote.books[i].uuid

C18_CacheCoherence ==
  /\ [](\A c \in {"books", "highlights"} : cache[c].present => cache[c].docs = remote[c])
  /\ [][ \A c \in {"books", "highlights"} :
           (proc' = proc /\ cache[c].present /\ cache'[c] # cache[c]) =>
             /\ Appended(c)
             /\ cache'[c] = [present |-> TRUE, docs |-> Append(cache[c].docs, Last(c))] ]_vars
  /\ [][ (failure = "none" /\ failure' # "none") => (cache' = cache /\ remote' = remote) ]_vars

\* both caches hold the first listing followed by records this process created
C18_Witness ==
  /\ pc = "settled"
  /\ initial = RenamedStore
  /\ cache.books.present
  /\ cache.highlights.present
  /\ Len(cache.books.docs) = Len(initial.books) + 1
  /\ Len(cache.highlights.docs) = Len(initial.highlights) + 2

\* C19 - Completion: a run none of whose remote calls fails ends with the
\* promise of parse resolved, and the promise is resolved only when the series
\* is past its last tuple with nothing outstanding; the series moves past a
\* tuple only once it settled, and a settled tuple with highlights has its
\* book stored and every candidate stored for that book.
C19_Completion ==
  /\ (promise.parse = "pending") ~> (promise.parse = "resolved" \/ failure # "none")
  /\ [](promise.parse = "resolved" => (idx = n + 1 /\ inflight = {} /\ failure = "none"))
  /\ [][ (run' = run /\ proc' = proc /\ idx' # idx)
           => (pc = "settled" /\ idx' = idx + 1) ]_vars
  /\ [](pc = "settled" /\ ~skip(cur.highlights) =>
          /\ \E i \in 1..Len(remote.books) : remote.books[i] = book
          /\ book.original_title = cur.title
          /\ \A h \in Range(cur.highlights) :
               \E j \in 1..Len(remote.highlights) :
                 /\ remote.highlights[j].book_uuid = book.uuid
                 /\ trim(remote.highlights[j].body) = trim(h.content))

\* a run of two tuples with highlights completed
C19_Witness ==
  /\ promise.parse = "resolved"
  /\ n = 2
  /\ Len(remote.highlights) >= Len(initial.highlights) + 2
  /\ failure = "none"

====
